---- MODULE Spec2Model ----
(***************************************************************************)
(* Ownership-scoped CRUD layer (makeProfileFieldController and its         *)
(* helpers) over a record store.  One controller instance is modelled;     *)
(* ownerHasMany is fixed when the factory is called.  Every store call of  *)
(* a handler is one step, so that requests can interleave at their awaits. *)
(***************************************************************************)
EXTENDS Integers, Sequences, FiniteSets, TLC

\* ------------------------------------------------------------------ bounds
\* Profile ids the store may hand out: 1..MaxProfileId.
MaxProfileId == 2
\* Records of the target kind the store may hold; record ids are 1..MaxRecords.
MaxRecords == 2
\* Longest `data` array of a bulk update.
MaxItems == 2

\* ------------------------------------------------------- principals (users)
\* ids of the users-permissions users; the identity provider owns them.
Users == {1, 2}
\* the stored (lower-case) email of each user, as a sequence of characters
EmailOf(u) == IF u = 1 THEN <<"a">> ELSE <<"b">>
\* `undefined` where the code expects an id (user?.id missing, owner unknown)
NoId == 0

ProfileIds == 1..MaxProfileId
RecordIds == 1..MaxRecords
\* values of the two plain fields of a record; 0 is "never set"
FirstNames == {1, 2}
Phones == {1}
Fields == {"firstName", "phone", "profile"}

\* ------------------------------------------------------------- JS values
Undef == [t |-> "undefined"]
Null == [t |-> "null"]
\* the value of an expression whose evaluation throws a TypeError
Thrown == [t |-> "TypeError"]
Num(n) == [t |-> "number", v |-> n]
Obj(f) == [t |-> "object", f |-> f]
\* an id that may be missing (0) as a JS value
JsId(n) == IF n = NoId THEN Undef ELSE Num(n)
\* JS truthiness of the values used here
Truthy(v) == CASE v.t \in {"undefined", "null"} -> FALSE
               [] v.t = "number" -> v.v # 0
               [] OTHER -> TRUE
\* o[k] for a value o that is truthy
Prop(o, k) == IF o.t = "object" /\ k \in DOMAIN o.f THEN o.f[k] ELSE Undef

RECURSIVE getByPathFrom(_, _)
getByPathFrom(o, path) ==
  IF path = <<>> THEN o
  ELSE LET nxt == IF Truthy(o) /\ Prop(o, Head(path)) \notin {Undef, Null}
                  THEN Prop(o, Head(path)) ELSE Undef
       IN getByPathFrom(nxt, Tail(path))

\* getByPath(obj, 'a.b'): the path is given split at its dots
getByPath(obj, path) == getByPathFrom(obj, path)

\* typeof rel === 'object' ? rel.id : rel   (typeof null is 'object' too)
IdOrSelf(rel) == CASE rel.t = "object" -> Prop(rel, "id")
                   [] rel.t = "null" -> Thrown
                   [] OTHER -> rel

\* extractOwnerId(entity, ownerField) of profileHelpers.js
extractOwnerId(entity, ownerField) ==
  LET rel == getByPath(entity, ownerField) IN
  IF ~Truthy(rel) THEN Undef
  ELSE IF ownerField = <<"user">> \/ Len(ownerField) = 1
       THEN IdOrSelf(rel)
       ELSE LET profile == IF rel.t = "object" THEN rel ELSE Obj([id |-> rel]) IN
            IF Prop(profile, "user") # Undef
            THEN IdOrSelf(Prop(profile, "user"))
            ELSE Undef

\* ------------------------------------------------- route identifier parsing
\* A route identifier is a sequence of characters; "%20" and "%61" stand for
\* these percent escapes and a lone "%" for a malformed escape.
Lower(c) == CASE c = "U" -> "u" [] c = "S" -> "s" [] c = "E" -> "e"
              [] c = "R" -> "r" [] c = "A" -> "a" [] c = "B" -> "b"
              [] c = "C" -> "c" [] OTHER -> c
toLowerCase(s) == [k \in 1..Len(s) |-> Lower(s[k])]

\* decodeURIComponent of one character; it throws on a malformed escape
DecodeChar(c) == CASE c = "%20" -> " " [] c = "%61" -> "a" [] OTHER -> c
Malformed(s) == \E k \in 1..Len(s) : s[k] = "%"

RECURSIVE TrimLeft(_)
TrimLeft(s) == IF s # <<>> /\ Head(s) = " " THEN TrimLeft(Tail(s)) ELSE s
RECURSIVE TrimRight(_)
TrimRight(s) == IF s # <<>> /\ s[Len(s)] = " "
                THEN TrimRight(SubSeq(s, 1, Len(s) - 1)) ELSE s
trim(s) == TrimRight(TrimLeft(s))

\* length of "<paramKey>="
KeyLen(paramKey) == Len(paramKey) + 1

\* parseEmailParam(id, paramKey): [matched, s]; matched = FALSE is `null`
parseEmailParam(id, paramKey) ==
  IF id = <<>> THEN [matched |-> FALSE, s |-> <<>>]
  ELSE IF ~ ( /\ Len(id) > KeyLen(paramKey)
              /\ toLowerCase(SubSeq(id, 1, Len(paramKey))) = paramKey
              /\ id[KeyLen(paramKey)] = "=" )
       THEN [matched |-> FALSE, s |-> <<>>]
       ELSE LET m1 == SubSeq(id, KeyLen(paramKey) + 1, Len(id)) IN
            IF Malformed(m1)
            THEN [matched |-> TRUE, s |-> trim(m1)]
            ELSE [matched |-> TRUE,
                  s |-> trim([k \in 1..Len(m1) |-> DecodeChar(m1[k])])]

\* !emailFromParam
NoEmail(parsed) == ~parsed.matched \/ parsed.s = <<>>

\* ------------------------------------------------------------------ state
VARIABLES
  ownerHasMany,  \* the factory's option: TRUE for the collection kind
  profiles,      \* the Profile records: [id, user]
  records,       \* the records of the target kind: [id, profile, firstName, phone]
  req,           \* the requests being handled, by slot
  helperCall,    \* a helper function applied on its own: [pc, arg, field, result]
  role,          \* TRUE when the store holds the role of type 'authenticated'
  permissions,   \* the action keys of the permissions of that role
  run            \* the runs of setAuthenticatedPermissions, by kind

vars == <<ownerHasMany, profiles, records, req, helperCall, role, permissions, run>>

\* ------------------------------------------------ bootstrap's arguments
\* the number of times the server is started
MaxBoots == 2

\* the kinds bootstrap reconciles, index.js lines 127-130
Kinds == {"profile", "person", "identity-document", "emergency-contact"}

\* the uid of a kind as a string split at its dots
UidOf(k) == <<"api::", k, ".", k>>

\* bootstrap, lines 122-125
FIND_NO_FINDONE_ACTIONS == <<"find">>
FIND_ACTIONS == FIND_NO_FINDONE_ACTIONS \o <<"findOne">>
FIND_UPDATE_ACTIONS == FIND_ACTIONS \o <<"update">>
FIND_NO_FINDONE_UPDATE_ACTIONS == FIND_NO_FINDONE_ACTIONS \o <<"update">>

\* the `actions` bootstrap passes for a kind, lines 127-130
ActionsOf(k) ==
  CASE k = "profile" -> FIND_ACTIONS
    [] k = "person" -> FIND_UPDATE_ACTIONS
    [] k = "identity-document" -> FIND_UPDATE_ACTIONS
    [] k = "emergency-contact" -> FIND_NO_FINDONE_UPDATE_ACTIONS

\* a run that has not been started
IdleRun == [pc |-> "idle", n |-> 0, i |-> 0, pending |-> <<>>, calls |-> <<>>]

\* the owner relation of the target kind, split at its dots (default 'profile')
ownerField == <<"profile">>

Slots == {1, 2}

\* ------------------------------------------------------------ the store
\* entityService.findOne(UID, id): the records with this id (none or one)
RecordsById(id) == {e \in records : e.id = id}
ProfilesById(id) == {p \in profiles : p.id = id}
\* the users row with its one-to-one `profile` relation
ProfilesOfUser(u) == {p \in profiles : p.user = u}

\* a profile as populated by { populate: { user: true } }
PopulatedProfile(p) ==
  Obj([id |-> Num(p.id),
       user |-> IF p.user \in Users THEN Obj([id |-> Num(p.user)]) ELSE Null])

\* a record as returned with populate: { [ownerField]: { populate: { user: true } } }
Populated(e) ==
  Obj([id |-> Num(e.id),
       documentId |-> Num(e.id),
       profile |-> IF ProfilesById(e.profile) = {} THEN Null
                   ELSE PopulatedProfile(CHOOSE p \in ProfilesById(e.profile) : TRUE)])

\* a set of records as the result array of a query, in id order
RECURSIVE InIdOrder(_)
InIdOrder(S) ==
  IF S = {} THEN <<>>
  ELSE LET first == CHOOSE e \in S : \A o \in S : e.id <= o.id
       IN <<first>> \o InIdOrder(S \ {first})

\* one filter of a query holds of a record; an undefined id matches nothing
\* or is dropped by the query builder (ignoreUndef)
Matches(e, key, value, ignoreUndef) ==
  IF value = NoId THEN ignoreUndef
  ELSE CASE key = <<"profile">> -> e.profile = value
         [] key = <<"id">> -> e.id = value
         [] key = <<"profile", "user">> ->
              \E p \in ProfilesById(e.profile) : p.user = value
         [] OTHER -> TRUE

\* service.find({ filters }): filters is a set of <<path, id>>, one for each
\* { path: { id } } of the query (<<"id">> for { id }); all of them hold
StoreFind(filters, ignoreUndef) ==
  InIdOrder({e \in records :
              \A f \in filters : Matches(e, f[1], f[2], ignoreUndef)})

\* an update that replaces the record: a field the payload does not name is
\* reset
MergeReplace(e, data) ==
  [id |-> e.id,
   profile |-> IF "profile" \in DOMAIN data THEN data["profile"] ELSE e.profile,
   firstName |-> IF "firstName" \in DOMAIN data THEN data["firstName"] ELSE 0,
   phone |-> IF "phone" \in DOMAIN data THEN data["phone"] ELSE 0]

\* the fields a payload may set on a record
Merge(e, data) ==
  [id |-> e.id,
   profile |-> IF "profile" \in DOMAIN data THEN data["profile"] ELSE e.profile,
   firstName |-> IF "firstName" \in DOMAIN data THEN data["firstName"] ELSE e.firstName,
   phone |-> IF "phone" \in DOMAIN data THEN data["phone"] ELSE e.phone]

\* an update that writes the payload to every record of the kind
StoreUpdateAll(id, data) ==
  {Merge(e, data) : e \in records}

\* documents(UID).update({ documentId, data }) / service.update(id, { data })
StoreUpdate(id, data) ==
  {IF e.id = id THEN Merge(e, data) ELSE e : e \in records}

\* documents(UID).create({ data }): the new record, with the next id
NewRecord(data) ==
  Merge([id |-> Cardinality(records) + 1, profile |-> NoId,
         firstName |-> 0, phone |-> 0], data)

\* --------------------------------------------------------- request inputs
\* ctx.state.user.id: a user's id, or none
Agents == Users \cup {NoId}

Digits == <<"1", "2", "3", "4", "5", "6", "7", "8", "9">>
\* the route identifier of record n, and the record id a direct identifier names
DirectRoute(n) == <<Digits[n]>>
DirectIdOf(id) ==
  IF \E n \in 1..Len(Digits) : id = DirectRoute(n)
  THEN CHOOSE n \in 1..Len(Digits) : id = DirectRoute(n)
  ELSE NoId

UserKey == <<"u", "s", "e", "r">>
EmailRoute(email) == UserKey \o <<"=">> \o email
\* direct ids (of no record while the store holds fewer), the email forms of
\* both users and an unregistered email
RouteIds ==
  {DirectRoute(n) : n \in RecordIds}
    \cup {EmailRoute(<<"a">>), EmailRoute(<<"b">>), EmailRoute(<<"c">>)}

\* caller-supplied query filters: none, on the owner field, on the id
CallerFilters ==
  {{}} \cup {{<< <<"profile">>, p >>} : p \in ProfileIds}
       \cup {{<< <<"id">>, n >>} : n \in RecordIds}

\* the values a payload may give a field
FieldValues(k) == CASE k = "firstName" -> FirstNames
                    [] k = "phone" -> Phones
                    [] OTHER -> ProfileIds
\* the payload objects that set exactly the fields of one of `domains`
ObjectsOver(domains) ==
  UNION {{f \in [D -> FirstNames \cup Phones \cup ProfileIds] :
            \A k \in D : f[k] \in FieldValues(k)} : D \in domains}
\* objects of a singleton update: one field, or a field and the owner field
PayloadObjects ==
  ObjectsOver({{"firstName"}, {"phone"}, {"firstName", "profile"}})
\* objects used as items of a `data` array
BulkObjects ==
  {f \in ObjectsOver({{"firstName"}, {"phone", "profile"}}) :
     /\ "firstName" \in DOMAIN f => f["firstName"] = 2
     /\ "profile" \in DOMAIN f => f["profile"] = 1}
\* an item of a `data` array: fields, and maybe an `id` (0 is a falsy id)
Items(objects) == [hasId : BOOLEAN, id : 0..MaxRecords, f : objects]
PayloadItems == {it \in Items(BulkObjects) : ~it.hasId => it.id = 0}
SeqsUpTo(S, n) == UNION {[1..k -> S] : k \in 0..n}

NoData == [shape |-> "absent", items |-> <<>>]
ObjectData(f) == [shape |-> "object", items |-> <<[hasId |-> FALSE, id |-> 0, f |-> f]>>]
ArrayData(items) == [shape |-> "array", items |-> items]
\* request bodies: no `data`, an object, an array of items; the collection
\* kind gets the longer arrays, the singleton kind the larger objects
Payloads(hasMany) ==
  {NoData}
    \cup {ObjectData(f) : f \in IF hasMany THEN BulkObjects ELSE PayloadObjects}
    \cup {ArrayData(a) : a \in IF hasMany THEN SeqsUpTo(PayloadItems, MaxItems)
                                 ELSE SeqsUpTo({it \in PayloadItems : ~it.hasId}, 1)}

\* a request that is not being handled
Idle ==
  [pc |-> "idle", op |-> "none", agent |-> NoId, id |-> <<>>, filters |-> {},
   data |-> NoData,
   agentId |-> NoId, extractedIds |-> <<>>, sanitized |-> <<>>,
   ownerUser |-> NoId, profileId |-> NoId, i |-> 0, target |-> NoId,
   out |-> <<>>, status |-> "none", body |-> <<>>, calls |-> <<>>]

\* -------------------------------------------------------------- responses
\* ctx.badRequest / ctx.forbidden (returned) and ctx.throw: the handler ends
\* with this status
Fail(rq, status) == [rq EXCEPT !.pc = "done", !.status = status, !.body = <<>>]

\* return this.transformResponse(value): the value is the body unless an
\* error helper has already written the response
Return(rq, value) ==
  [rq EXCEPT !.pc = "done",
             !.status = IF rq.status = "none" THEN "ok" ELSE rq.status,
             !.body = IF rq.status = "none" THEN value ELSE rq.body]

\* one store call, as logged for the request
Call(rq, c, on, id) ==
  [rq EXCEPT !.calls = Append(rq.calls, [c |-> c, on |-> on, id |-> id])]

\* ensureAgentId(ctx): with no user id it writes the 401 response through
\* ctx.unauthorized and returns that call's value, undefined
ensureAgentId(rq) ==
  IF rq.agent # NoId
  THEN [rq EXCEPT !.agentId = rq.agent]
  ELSE [rq EXCEPT !.agentId = NoId, !.status = "Unauthenticated"]

\* maybeOwnerFilter(sanitizedQuery, agentId, ownerField):
\* { ...current, [ownerField]: { id: agentId } }
maybeOwnerFilter(filters, agentId, field) ==
  {f \in filters : Head(f[1]) # Head(field)} \cup {<<field, agentId>>}

\* agentId !== ownerId
SameId(agentId, ownerId) == JsId(agentId) = ownerId

\* no helper is applied on its own
NoCall == [pc |-> "none", arg |-> Undef, field |-> <<>>, result |-> Undef]

\* ------------------------------------------------------------------- Init
Init ==
  /\ ownerHasMany \in BOOLEAN
  /\ profiles = {}
  /\ records = {}
  /\ req = [r \in Slots |-> Idle]
  /\ helperCall = NoCall
  /\ role = TRUE
  /\ permissions = {}
  /\ run = [k \in Kinds |-> IdleRun]

\* ------------------------------------------------------------------- find
\* find, lines 41-48: the handler up to its store query
StartFind(r) ==
  /\ req[r].pc = "idle"
  /\ \E agent \in Agents, filters \in CallerFilters :
       req' = [req EXCEPT ![r] =
                 [ensureAgentId([Idle EXCEPT !.op = "find", !.agent = agent,
                                             !.filters = filters])
                    EXCEPT !.pc = "find_query"]]
  /\ UNCHANGED <<ownerHasMany, profiles, records, helperCall, role, permissions, run>>

\* find, lines 48-53: the owner-filtered query and the response
FindQuery(r) ==
  /\ req[r].pc = "find_query"
  /\ \E ignoreUndef \in BOOLEAN :
       LET rq == req[r]
           query == maybeOwnerFilter(rq.filters, rq.agentId, ownerField)
       IN req' = [req EXCEPT ![r] =
                    Return(Call(rq, "find", "record", NoId),
                           StoreFind(query, ignoreUndef))]
  /\ UNCHANGED <<ownerHasMany, profiles, records, helperCall, role, permissions, run>>

\* ---------------------------------------------------------------- findOne
\* a findOne that serves collection kinds as well
StartFindOneOnAnyKind(r, agents, ids) ==
  /\ req[r].pc = "idle"
  /\ \E agent \in agents, id \in ids :
       LET rq == ensureAgentId([Idle EXCEPT !.op = "findOne", !.agent = agent,
                                            !.id = id])
       IN req' = [req EXCEPT ![r] =
                    IF NoEmail(parseEmailParam(id, UserKey))
                    THEN [rq EXCEPT !.pc = "fo_fetch"]
                    ELSE [rq EXCEPT !.pc = "users_lookup"]]
  /\ UNCHANGED <<ownerHasMany, profiles, records, helperCall, role, permissions, run>>

\* findOne, lines 57-72: up to the first store call of its branch
StartFindOneOn(r, agents, ids) ==
  /\ req[r].pc = "idle"
  /\ \E agent \in agents, id \in ids :
       LET rq0 == [Idle EXCEPT !.op = "findOne", !.agent = agent, !.id = id]
           rq == ensureAgentId(rq0)
       IN req' = [req EXCEPT ![r] =
                    IF ownerHasMany THEN Fail(rq0, "BadRequest")
                    ELSE IF NoEmail(parseEmailParam(id, UserKey))
                         THEN [rq EXCEPT !.pc = "fo_fetch"]
                         ELSE [rq EXCEPT !.pc = "users_lookup"]]
  /\ UNCHANGED <<ownerHasMany, profiles, records, helperCall, role, permissions, run>>

\* findOne with any caller and any route identifier
StartFindOne(r) == StartFindOneOn(r, Agents, RouteIds)

\* findOne, lines 74-91 (branch A): fetch by id, compare the owner, answer
FindOneFetch(r) ==
  /\ req[r].pc = "fo_fetch"
  /\ LET rq == Call(req[r], "findOne", "record", DirectIdOf(req[r].id))
         existing == RecordsById(DirectIdOf(rq.id))
     IN req' = [req EXCEPT ![r] =
                  IF existing = {} THEN Return(rq, <<>>)
                  ELSE LET e == CHOOSE e \in existing : TRUE IN
                       IF ~SameId(rq.agentId, extractOwnerId(Populated(e), ownerField))
                       THEN Fail(rq, "Forbidden")
                       ELSE Return(rq, <<e>>)]
  /\ UNCHANGED <<ownerHasMany, profiles, records, helperCall, role, permissions, run>>

\* an item loop that updates an id-bearing item without fetching its record
BulkLoopNoFetch(rq) ==
  IF rq.i > Len(rq.sanitized) THEN Return(rq, rq.out)
  ELSE IF rq.extractedIds[rq.i] # 0
       THEN [rq EXCEPT !.target = rq.extractedIds[rq.i], !.pc = "bulk_write"]
       ELSE [rq EXCEPT !.pc = "bulk_create"]

\* update, lines 248-252 and 298-299: the head of the item loop, up to the
\* store call of the current item, or the response after the last one
BulkLoop(rq) ==
  IF rq.i > Len(rq.sanitized) THEN Return(rq, rq.out)
  ELSE IF rq.extractedIds[rq.i] # 0 THEN [rq EXCEPT !.pc = "bulk_fetch"]
       ELSE [rq EXCEPT !.pc = "bulk_create"]

\* the profile ensureProfile(strapi, user, false) returns: the user's populated
\* `profile`, or the created entry; its own `user` relation is not populated
AsReturned(pid) == [id |-> pid, user |-> NoId]

\* the synchronous code after ensureProfile has returned: profile findOne
\* lines 88-93, findOne line 121, update lines 241-246 and 304
AfterProfile(rq) ==
  IF rq.op = "profileFindOne" THEN Return(rq, <<AsReturned(rq.profileId)>>)
  ELSE IF rq.op = "findOne" THEN [rq EXCEPT !.pc = "fo_find"]
  ELSE IF ownerHasMany
       THEN IF rq.data.shape # "array" THEN Fail(rq, "BadRequest")
            ELSE BulkLoop([rq EXCEPT !.i = 1])
       ELSE [rq EXCEPT !.pc = "single_find"]

\* a lookup that does not compare the user of the email with the caller
UsersLookupUnchecked(r) ==
  /\ req[r].pc = "users_lookup"
  /\ LET rq == Call(req[r], "findMany", "user", NoId)
         email == toLowerCase(parseEmailParam(rq.id, UserKey).s)
         users == {u \in Users : EmailOf(u) = email}
     IN req' = [req EXCEPT ![r] =
                  IF users = {} THEN Fail(rq, "NotFound")
                  ELSE LET ownerUser == CHOOSE u \in users : TRUE IN
                       [rq EXCEPT !.ownerUser = ownerUser, !.pc = "ensure_read"]]
  /\ UNCHANGED <<ownerHasMany, profiles, records, helperCall, role, permissions, run>>

\* findOne lines 95-115, update lines 215-235 (branch B): the user of the
\* email, who must be the caller
UsersLookup(r) ==
  /\ req[r].pc = "users_lookup"
  /\ LET rq == Call(req[r], "findMany", "user", NoId)
         email == toLowerCase(parseEmailParam(rq.id, UserKey).s)
         users == {u \in Users : EmailOf(u) = email}
     IN req' = [req EXCEPT ![r] =
                  IF users = {} THEN Fail(rq, "NotFound")
                  ELSE LET ownerUser == CHOOSE u \in users : TRUE IN
                       IF rq.agentId # ownerUser THEN Fail(rq, "Forbidden")
                       ELSE [rq EXCEPT !.ownerUser = ownerUser, !.pc = "ensure_read"]]
  /\ UNCHANGED <<ownerHasMany, profiles, records, helperCall, role, permissions, run>>

\* a provisioning that does not look for the user's profile before creating
EnsureProfileReadBlind(r) ==
  /\ req[r].pc = "ensure_read"
  /\ req' = [req EXCEPT ![r] =
               [Call(req[r], "findOne", "user", req[r].ownerUser)
                  EXCEPT !.pc = "ensure_create"]]
  /\ UNCHANGED <<ownerHasMany, profiles, records, helperCall, role, permissions, run>>

\* ensureProfile, lines 87-102: the user's profile, when there is one
EnsureProfileRead(r) ==
  /\ req[r].pc = "ensure_read"
  /\ LET rq == Call(req[r], "findOne", "user", req[r].ownerUser) IN
       \/ /\ ProfilesOfUser(rq.ownerUser) = {}
          /\ req' = [req EXCEPT ![r] = [rq EXCEPT !.pc = "ensure_create"]]
       \/ \E p \in ProfilesOfUser(rq.ownerUser) :
            req' = [req EXCEPT ![r] = AfterProfile([rq EXCEPT !.profileId = p.id])]
  /\ UNCHANGED <<ownerHasMany, profiles, records, helperCall, role, permissions, run>>

\* the Profiles after one more is linked to user u: the store either keeps the
\* link of a Profile the user already had, or takes it away from that Profile
Relinked(u, keep) ==
  IF keep THEN profiles
  ELSE {IF p.user = u THEN [p EXCEPT !.user = NoId] ELSE p : p \in profiles}

\* an ensureProfile that creates the profile without its `user`
EnsureProfileCreateUnlinked(r) ==
  /\ req[r].pc = "ensure_create"
  /\ \E pid \in ProfileIds :
       /\ ProfilesById(pid) = {}
       /\ profiles' = profiles \cup {[id |-> pid, user |-> NoId]}
       /\ req' = [req EXCEPT ![r] =
                    AfterProfile([Call(req[r], "create", "profile", pid)
                                    EXCEPT !.profileId = pid])]
  /\ UNCHANGED <<ownerHasMany, records, helperCall, role, permissions, run>>

\* ensureProfile, lines 105-110: create the profile; the store picks its id
EnsureProfileCreate(r) ==
  /\ req[r].pc = "ensure_create"
  /\ \E pid \in ProfileIds, keep \in BOOLEAN :
       /\ ProfilesById(pid) = {}
       /\ profiles' = Relinked(req[r].ownerUser, keep)
                         \cup {[id |-> pid, user |-> req[r].ownerUser]}
       /\ req' = [req EXCEPT ![r] =
                    AfterProfile([Call(req[r], "create", "profile", pid)
                                    EXCEPT !.profileId = pid])]
  /\ UNCHANGED <<ownerHasMany, records, helperCall, role, permissions, run>>

\* a findOne that creates the record of the profile when there is none
FindOneByProfileCreating(r) ==
  /\ req[r].pc = "fo_find"
  /\ Cardinality(records) < MaxRecords
  /\ LET rq == Call(req[r], "find", "record", NoId)
         results == StoreFind({<<ownerField, rq.profileId>>}, FALSE)
         created == NewRecord([k \in {"profile"} |-> rq.profileId])
     IN IF results = <<>>
        THEN /\ records' = records \cup {created}
             /\ req' = [req EXCEPT ![r] = Return(rq, <<created>>)]
        ELSE /\ records' = records
             /\ req' = [req EXCEPT ![r] = Return(rq, <<results[1]>>)]
  /\ UNCHANGED <<ownerHasMany, profiles, helperCall, role, permissions, run>>

\* findOne, lines 121-132: the record of the profile, or null
FindOneByProfile(r) ==
  /\ req[r].pc = "fo_find"
  /\ LET rq == Call(req[r], "find", "record", NoId)
         results == StoreFind({<<ownerField, rq.profileId>>}, FALSE)
     IN req' = [req EXCEPT ![r] =
                  IF results = <<>> THEN Return(rq, <<>>)
                  ELSE Return(rq, <<results[1]>>)]
  /\ UNCHANGED <<ownerHasMany, profiles, records, helperCall, role, permissions, run>>

\* ------------------------------------------------- profile controller
\* a profile findOne that returns the fetched Profile to any caller
ProfileFetchUnchecked(r) ==
  /\ req[r].pc = "pf_fetch"
  /\ LET rq == Call(req[r], "findOne", "profile", DirectIdOf(req[r].id))
         existing == ProfilesById(DirectIdOf(rq.id))
     IN req' = [req EXCEPT ![r] =
                  IF existing = {} THEN Return(rq, <<>>)
                  ELSE Return(rq, <<CHOOSE p \in existing : TRUE>>)]
  /\ UNCHANGED <<ownerHasMany, profiles, records, helperCall, role, permissions, run>>

\* profile findOne, lines 37-46 and 66: up to the first store call
StartProfileFindOneOn(r, agents, ids) ==
  /\ req[r].pc = "idle"
  /\ \E agent \in agents, id \in ids :
       LET rq == ensureAgentId([Idle EXCEPT !.op = "profileFindOne",
                                            !.agent = agent, !.id = id])
       IN req' = [req EXCEPT ![r] =
                    IF NoEmail(parseEmailParam(id, UserKey))
                    THEN [rq EXCEPT !.pc = "pf_fetch"]
                    ELSE [rq EXCEPT !.pc = "users_lookup"]]
  /\ UNCHANGED <<ownerHasMany, profiles, records, helperCall, role, permissions, run>>

\* profile findOne with any caller and any route identifier
StartProfileFindOne(r) == StartProfileFindOneOn(r, Agents, RouteIds)

\* profile findOne, lines 48-62 (branch A): fetch the Profile with its user,
\* compare the owner, answer
ProfileFetch(r) ==
  /\ req[r].pc = "pf_fetch"
  /\ LET rq == Call(req[r], "findOne", "profile", DirectIdOf(req[r].id))
         existing == ProfilesById(DirectIdOf(rq.id))
     IN req' = [req EXCEPT ![r] =
                  IF existing = {} THEN Return(rq, <<>>)
                  ELSE LET p == CHOOSE p \in existing : TRUE IN
                       IF ~SameId(rq.agentId,
                                  extractOwnerId(PopulatedProfile(p), <<"user">>))
                       THEN Fail(rq, "Forbidden")
                       ELSE Return(rq, <<p>>)]
  /\ UNCHANGED <<ownerHasMany, profiles, records, helperCall, role, permissions, run>>

\* ----------------------------------------------------------------- update
\* deleteByPath(obj, ownerField) on a payload object
deleteByPath(f, field) ==
  IF Len(field) = 1 /\ field[1] \in DOMAIN f
  THEN [k \in DOMAIN f \ {field[1]} |-> f[k]]
  ELSE f

\* update, lines 149-152: item?.id || null for each item of an array
ExtractIds(data) ==
  IF ownerHasMany /\ data.shape = "array"
  THEN [k \in 1..Len(data.items) |->
          IF data.items[k].hasId THEN data.items[k].id ELSE 0]
  ELSE <<>>

\* a handler that forgets to remove the owner field from the payload
StripOwnerSkipped(data) == [k \in 1..Len(data.items) |-> data.items[k].f]

\* update, lines 163-172: the sanitized payload with the owner field removed
\* from each item of a collection's array, or from the payload object itself
\* (an array has no such property of its own)
StripOwner(data) ==
  IF ownerHasMany /\ data.shape = "array"
  THEN [k \in 1..Len(data.items) |-> deleteByPath(data.items[k].f, ownerField)]
  ELSE IF data.shape = "object"
       THEN <<deleteByPath(data.items[1].f, ownerField)>>
       ELSE [k \in 1..Len(data.items) |-> data.items[k].f]

\* the `data` handed to the store by the single-record branches: the payload
\* object; an array carries none of the kind's attributes
SingleData(rq) ==
  IF rq.data.shape = "object" THEN rq.sanitized[1] ELSE [k \in {} |-> 0]

\* update, lines 137-177: up to the first store call of its branch
StartUpdateOn(r, agents, ids, payloads) ==
  /\ req[r].pc = "idle"
  /\ \E agent \in agents, id \in ids, data \in payloads :
       LET rq == ensureAgentId([Idle EXCEPT !.op = "update", !.agent = agent,
                                            !.id = id, !.data = data])
       IN req' = [req EXCEPT ![r] =
                    IF data.shape = "absent" THEN Fail(rq, "BadRequest")
                    ELSE [rq EXCEPT
                            !.extractedIds = ExtractIds(data),
                            !.sanitized = StripOwner(data),
                            !.pc = IF NoEmail(parseEmailParam(id, UserKey))
                                   THEN "upd_fetch" ELSE "users_lookup"]]
  /\ UNCHANGED <<ownerHasMany, profiles, records, helperCall, role, permissions, run>>

\* update with any caller, any route identifier and any payload
StartUpdate(r) == StartUpdateOn(r, Agents, RouteIds, Payloads(ownerHasMany))

\* a direct-id update that writes without comparing the owner with the caller
UpdateFetchUnchecked(r) ==
  /\ req[r].pc = "upd_fetch"
  /\ LET rq == Call(req[r], "findOne", "record", DirectIdOf(req[r].id))
         existing == RecordsById(DirectIdOf(rq.id))
     IN req' = [req EXCEPT ![r] =
                  IF existing = {} THEN Return(rq, <<>>)
                  ELSE [rq EXCEPT !.target = (CHOOSE e \in existing : TRUE).id,
                                  !.pc = "upd_write"]]
  /\ UNCHANGED <<ownerHasMany, profiles, records, helperCall, role, permissions, run>>

\* update, lines 179-191 (branch A): fetch by id and compare the owner
UpdateFetch(r) ==
  /\ req[r].pc = "upd_fetch"
  /\ LET rq == Call(req[r], "findOne", "record", DirectIdOf(req[r].id))
         existing == RecordsById(DirectIdOf(rq.id))
     IN req' = [req EXCEPT ![r] =
                  IF existing = {} THEN Return(rq, <<>>)
                  ELSE LET e == CHOOSE e \in existing : TRUE IN
                       IF ~SameId(rq.agentId, extractOwnerId(Populated(e), ownerField))
                       THEN Fail(rq, "Forbidden")
                       ELSE [rq EXCEPT !.target = e.id, !.pc = "upd_write"]]
  /\ UNCHANGED <<ownerHasMany, profiles, records, helperCall, role, permissions, run>>

\* update, lines 194-211 (branch A): the update and the response
UpdateWrite(r) ==
  /\ req[r].pc = "upd_write"
  /\ LET rq == Call(req[r], "update", "record", req[r].target) IN
       /\ records' = StoreUpdate(rq.target, SingleData(rq))
       /\ req' = [req EXCEPT ![r] =
                    Return(rq, InIdOrder({Merge(e, SingleData(rq)) :
                                            e \in RecordsById(rq.target)}))]
  /\ UNCHANGED <<ownerHasMany, profiles, helperCall, role, permissions, run>>

\* update, lines 254-270: fetch the item's record and compare its owner
BulkFetch(r) ==
  /\ req[r].pc = "bulk_fetch"
  /\ LET itemId == req[r].extractedIds[req[r].i]
         rq == Call(req[r], "findOne", "record", itemId)
         existing == RecordsById(itemId)
     IN req' = [req EXCEPT ![r] =
                  IF existing = {} THEN Fail(rq, "NotFound")
                  ELSE LET e == CHOOSE e \in existing : TRUE IN
                       IF extractOwnerId(Populated(e), ownerField) # JsId(rq.ownerUser)
                       THEN Fail(rq, "Forbidden")
                       ELSE [rq EXCEPT !.target = e.id, !.pc = "bulk_write"]]
  /\ UNCHANGED <<ownerHasMany, profiles, records, helperCall, role, permissions, run>>

\* an item update that is written and then reported as failed
BulkWriteThenFail(r) ==
  /\ req[r].pc = "bulk_write"
  /\ LET rq == Call(req[r], "update", "record", req[r].target)
         item == rq.sanitized[rq.i]
     IN /\ records' = StoreUpdate(rq.target, item)
        /\ req' = [req EXCEPT ![r] = Fail(rq, "NotFound")]
  /\ UNCHANGED <<ownerHasMany, profiles, helperCall, role, permissions, run>>

\* update, lines 273-287: update the item's record, go on with the next item
BulkWrite(r) ==
  /\ req[r].pc = "bulk_write"
  /\ LET rq == Call(req[r], "update", "record", req[r].target)
         item == rq.sanitized[rq.i]
     IN /\ records' = StoreUpdate(rq.target, item)
        /\ req' = [req EXCEPT ![r] =
                     BulkLoop([rq EXCEPT
                                 !.out = rq.out \o InIdOrder({Merge(e, item) :
                                                    e \in RecordsById(rq.target)}),
                                 !.i = rq.i + 1])]
  /\ UNCHANGED <<ownerHasMany, profiles, helperCall, role, permissions, run>>

\* a create that does not set the owner field of the new record
BulkCreateNoOwner(r) ==
  /\ req[r].pc = "bulk_create"
  /\ Cardinality(records) < MaxRecords
  /\ LET item == req[r].sanitized[req[r].i]
         created == NewRecord(item)
         rq == Call(req[r], "create", "record", created.id)
     IN /\ records' = records \cup {created}
        /\ req' = [req EXCEPT ![r] =
                     BulkLoop([rq EXCEPT !.out = Append(rq.out, created),
                                         !.i = rq.i + 1])]
  /\ UNCHANGED <<ownerHasMany, profiles, helperCall, role, permissions, run>>

\* update, lines 290-294: create the item's record for the profile
BulkCreate(r) ==
  /\ req[r].pc = "bulk_create"
  /\ Cardinality(records) < MaxRecords
  /\ LET item == req[r].sanitized[req[r].i]
         created == NewRecord([k \in {"profile"} |-> req[r].profileId] @@ item)
         rq == Call(req[r], "create", "record", created.id)
     IN /\ records' = records \cup {created}
        /\ req' = [req EXCEPT ![r] =
                     BulkLoop([rq EXCEPT !.out = Append(rq.out, created),
                                         !.i = rq.i + 1])]
  /\ UNCHANGED <<ownerHasMany, profiles, helperCall, role, permissions, run>>

\* a singleton update that writes the first record of the kind, whichever
\* profile it references
SingleWriteFirst(r) ==
  /\ req[r].pc = "single_write"
  /\ LET first == InIdOrder(records)[1].id
         rq == Call(req[r], "update", "record", first) IN
       /\ records' = StoreUpdate(first, SingleData(rq))
       /\ req' = [req EXCEPT ![r] =
                    Return(rq, InIdOrder({Merge(e, SingleData(rq)) :
                                            e \in RecordsById(first)}))]
  /\ UNCHANGED <<ownerHasMany, profiles, helperCall, role, permissions, run>>

\* a singleton update that does not look for the record of the profile
SingleFindNone(r) ==
  /\ req[r].pc = "single_find"
  /\ req' = [req EXCEPT ![r] =
               [Call(req[r], "find", "record", NoId) EXCEPT !.pc = "single_create"]]
  /\ UNCHANGED <<ownerHasMany, profiles, records, helperCall, role, permissions, run>>

\* update, lines 304-309: the record of the profile, if there is one
SingleFind(r) ==
  /\ req[r].pc = "single_find"
  /\ LET rq == Call(req[r], "find", "record", NoId)
         results == StoreFind({<<ownerField, rq.profileId>>}, FALSE)
     IN req' = [req EXCEPT ![r] =
                  IF results = <<>> THEN [rq EXCEPT !.pc = "single_create"]
                  ELSE [rq EXCEPT !.target = results[1].id, !.pc = "single_write"]]
  /\ UNCHANGED <<ownerHasMany, profiles, records, helperCall, role, permissions, run>>

\* a create on a store that holds at most one record for each profile: when
\* the profile has got a record in the meantime that record is the target
SingleCreateUnique(r) ==
  /\ req[r].pc = "single_create"
  /\ Cardinality(records) < MaxRecords
  /\ LET created == NewRecord([k \in {"profile"} |-> req[r].profileId])
         rq == Call(req[r], "create", "record", created.id)
         held == {e \in records : e.profile = req[r].profileId}
     IN IF held = {}
        THEN /\ records' = records \cup {created}
             /\ req' = [req EXCEPT ![r] =
                          [rq EXCEPT !.target = created.id, !.pc = "single_write"]]
        ELSE /\ records' = records
             /\ req' = [req EXCEPT ![r] =
                          [rq EXCEPT !.target = (CHOOSE e \in held : TRUE).id,
                                     !.pc = "single_write"]]
  /\ UNCHANGED <<ownerHasMany, profiles, helperCall, role, permissions, run>>

\* update, lines 312-318: create the missing record for the profile
SingleCreate(r) ==
  /\ req[r].pc = "single_create"
  /\ Cardinality(records) < MaxRecords
  /\ LET created == NewRecord([k \in {"profile"} |-> req[r].profileId])
         rq == Call(req[r], "create", "record", created.id)
     IN /\ records' = records \cup {created}
        /\ req' = [req EXCEPT ![r] =
                     [rq EXCEPT !.target = created.id, !.pc = "single_write"]]
  /\ UNCHANGED <<ownerHasMany, profiles, helperCall, role, permissions, run>>

\* update, lines 325-342: update the record of the profile and answer
SingleWrite(r) ==
  /\ req[r].pc = "single_write"
  /\ LET rq == Call(req[r], "update", "record", req[r].target) IN
       /\ records' = StoreUpdate(rq.target, SingleData(rq))
       /\ req' = [req EXCEPT ![r] =
                    Return(rq, InIdOrder({Merge(e, SingleData(rq)) :
                                            e \in RecordsById(rq.target)}))]
  /\ UNCHANGED <<ownerHasMany, profiles, helperCall, role, permissions, run>>

\* ----------------------------------------------------------------- delete
\* the actions bootstrap grants the Authenticated role on the target kind
GrantedActions ==
  IF ownerHasMany THEN {"find", "update"} ELSE {"find", "findOne", "update"}

\* the actions bootstrap grants the Authenticated role on the profile kind
GrantedOnProfile == {"find", "findOne"}

\* the actions the factory's controller object implements
Handlers == {"find", "findOne", "update"}

\* the ids a bulk delete names in its `data` array
DeletePayloads ==
  {ArrayData(a) :
     a \in SeqsUpTo({it \in Items({[k \in {} |-> 0]}) : it.hasId /\ it.id # 0},
                    MaxItems)}

\* a DELETE request on the collection kind: the controller object has no
\* delete handler and the role is granted no delete action, so the request is
\* refused and this layer verifies and deletes nothing
Delete(r) ==
  /\ req[r].pc = "idle"
  /\ ownerHasMany
  /\ \E agent \in Users, id \in RouteIds, data \in DeletePayloads :
       LET rq == [Idle EXCEPT !.op = "delete", !.agent = agent, !.id = id,
                              !.data = data]
       IN /\ "delete" \notin Handlers \cap GrantedActions
          /\ req' = [req EXCEPT ![r] = Fail(rq, "Forbidden")]
  /\ UNCHANGED <<ownerHasMany, profiles, records, helperCall, role, permissions, run>>

\* the handler has answered; the slot takes the next request
Finish(r) ==
  /\ req[r].pc = "done"
  /\ req' = [req EXCEPT ![r] = Idle]
  /\ UNCHANGED <<ownerHasMany, profiles, records, helperCall, role, permissions, run>>

\* ------------------------------------------------------------------- Next
Step(r) ==
  \/ StartFind(r) \/ FindQuery(r)
  \/ StartFindOne(r) \/ FindOneFetch(r) \/ FindOneByProfile(r)
  \/ UsersLookup(r) \/ EnsureProfileRead(r) \/ EnsureProfileCreate(r)
  \/ StartUpdate(r) \/ UpdateFetch(r) \/ UpdateWrite(r)
  \/ BulkFetch(r) \/ BulkWrite(r) \/ BulkCreate(r)
  \/ SingleFind(r) \/ SingleCreate(r) \/ SingleWrite(r)
  \/ Delete(r)
  \/ StartProfileFindOne(r) \/ ProfileFetch(r)
  \/ Finish(r)

\* requests handled one after the other
Next == Step(1)

Spec == Init /\ [][Next]_vars

\* ------------------------------------------------- concurrent requests
\* the email forms of the two users
OwnEmailRoutes == {EmailRoute(EmailOf(u)) : u \in Users}
\* one body for each kind: an object for the singleton, an array with one
\* id-less item for the collection
ConcurrentPayloads ==
  IF ownerHasMany
  THEN {ArrayData(<<[hasId |-> FALSE, id |-> 0, f |-> [k \in {"firstName"} |-> 2]]>>)}
  ELSE {ObjectData([k \in {"firstName"} |-> 1])}

\* a step of one of the email-indirected requests handled at the same time
StepConcurrent(r) ==
  \/ StartFindOneOn(r, Users, OwnEmailRoutes)
  \/ StartUpdateOn(r, Users, OwnEmailRoutes, ConcurrentPayloads)
  \/ UsersLookup(r) \/ EnsureProfileRead(r) \/ EnsureProfileCreate(r)
  \/ FindOneByProfile(r)
  \/ BulkCreate(r)
  \/ SingleFind(r) \/ SingleCreate(r) \/ SingleWrite(r)
  \/ Finish(r)

\* the handlers interleave at their awaits
NextConcurrent == \E r \in Slots : StepConcurrent(r)

SpecConcurrent == Init /\ [][NextConcurrent]_vars

\* ------------------------------------------ the forms of a route identifier
\* route identifiers of every form: a direct id, the email form in lower and
\* upper case, with escapes, with a value that is blank, empty or malformed,
\* and strings that only resemble the email form
RoutingIds ==
  {DirectRoute(1),
   EmailRoute(<<"a">>),
   <<"U", "S", "E", "R", "=", "A">>,
   EmailRoute(<<"%61">>),
   EmailRoute(<<" ", "b", " ">>),
   EmailRoute(<<"%20">>),
   EmailRoute(<<"%">>),
   EmailRoute(<<>>),
   UserKey,
   <<"x">> \o EmailRoute(<<"a">>)}

\* a step of a findOne or an update whose route identifier has any form
StepRouting(r) ==
  \/ StartFindOneOn(r, Users, RoutingIds)
  \/ StartUpdateOn(r, Users, RoutingIds, ConcurrentPayloads)
  \/ FindOneFetch(r) \/ UpdateFetch(r) \/ UpdateWrite(r)
  \/ UsersLookup(r) \/ EnsureProfileRead(r) \/ EnsureProfileCreate(r)
  \/ FindOneByProfile(r)
  \/ BulkCreate(r)
  \/ SingleFind(r) \/ SingleCreate(r) \/ SingleWrite(r)
  \/ Finish(r)

NextRouting == StepRouting(1)

SpecRouting == Init /\ [][NextRouting]_vars

\* ------------------------------------------- extractOwnerId on its own
\* a reference to a user: null, the bare id, or the nested object
UserRefs ==
  {Null} \cup {Num(u) : u \in Users} \cup {Obj([id |-> Num(u)]) : u \in Users}
\* a reference to a profile: null, the bare id, the object without its user,
\* or the object with a reference to its user
ProfileRefs ==
  {Null} \cup {Num(p) : p \in ProfileIds}
         \cup {Obj([id |-> Num(p)]) : p \in ProfileIds}
         \cup {Obj([id |-> Num(p), user |-> x]) : p \in ProfileIds, x \in UserRefs}
\* entities: without an owner relation, with `profile`, with `user`
Entities ==
  {Obj([id |-> Num(n)]) : n \in RecordIds}
    \cup {Obj([id |-> Num(n), profile |-> x]) : n \in RecordIds, x \in ProfileRefs}
    \cup {Obj([id |-> Num(n), user |-> x]) : n \in RecordIds, x \in UserRefs}
\* the owner paths the controllers pass, and the dotted path
OwnerFields == {<<"profile">>, <<"user">>, <<"profile", "user">>}

InitOwner ==
  /\ ownerHasMany = FALSE
  /\ profiles = {}
  /\ records = {}
  /\ req = [r \in Slots |-> Idle]
  /\ \E entity \in Entities, field \in OwnerFields :
       helperCall = [pc |-> "called", arg |-> entity, field |-> field,
                     result |-> Undef]
  /\ role = TRUE
  /\ permissions = {}
  /\ run = [k \in Kinds |-> IdleRun]

\* extractOwnerId(entity, ownerField) is evaluated
ApplyExtractOwnerId ==
  /\ helperCall.pc = "called"
  /\ helperCall' = [helperCall EXCEPT
                      !.pc = "returned",
                      !.result = extractOwnerId(helperCall.arg, helperCall.field)]
  /\ UNCHANGED <<ownerHasMany, profiles, records, req, role, permissions, run>>

NextOwner == ApplyExtractOwnerId

SpecOwner == InitOwner /\ [][NextOwner]_vars

\* --------------------------------------- two requests, direct ids allowed
\* the direct identifiers of the records the store may hold
DirectRoutes == {DirectRoute(n) : n \in RecordIds}

\* a step of one of two requests that address a record by its direct id or the
\* caller's kind by email
StepDirect(r) ==
  \/ StartFindOneOn(r, Users, DirectRoutes \cup OwnEmailRoutes)
  \/ StartUpdateOn(r, Users, DirectRoutes \cup OwnEmailRoutes, ConcurrentPayloads)
  \/ FindOneFetch(r) \/ UpdateFetch(r) \/ UpdateWrite(r)
  \/ UsersLookup(r) \/ EnsureProfileRead(r) \/ EnsureProfileCreate(r)
  \/ FindOneByProfile(r)
  \/ BulkCreate(r)
  \/ SingleFind(r) \/ SingleCreate(r) \/ SingleWrite(r)
  \/ StartProfileFindOneOn(r, Agents, DirectRoutes) \/ ProfileFetch(r)
  \/ Finish(r)

NextDirect == \E r \in Slots : StepDirect(r)

SpecDirect == Init /\ [][NextDirect]_vars

\* =============================================== permission reconciliation
\* `${uid}.${action}`, line 54
ActionKey(k, action) == UidOf(k) \o <<".", action>>
\* actions.map(action => `${uid}.${action}`), line 83
ActionKeys(k) == {ActionKey(k, ActionsOf(k)[j]) : j \in 1..Len(ActionsOf(k))}
\* String.prototype.startsWith
startsWith(s, prefix) ==
  Len(s) >= Len(prefix) /\ SubSeq(s, 1, Len(prefix)) = prefix

\* a permission of the role that belongs to none of the kinds
ForeignKey == <<"plugin::users-permissions", ".", "user", ".", "me">>
\* permissions an earlier version of bootstrap, or an administrator, may have
\* left: two of the profile kind and one of the emergency-contact kind that
\* are no longer listed, and one of the person kind that still is
LeftOver ==
  {ActionKey("profile", "update"), ActionKey("profile", "delete"),
   ActionKey("emergency-contact", "findOne"), ActionKey("person", "find")}
\* the permissions of the role when the server is started for the first time
PriorPermissions ==
  {{ForeignKey} \cup S :
     S \in {{}, LeftOver, {ActionKey("profile", "update")},
            {ActionKey("emergency-contact", "findOne"), ActionKey("person", "find")}}}

\* one order of a set of rows
RECURSIVE OneOrder(_)
OneOrder(S) ==
  IF S = {} THEN <<>>
  ELSE LET e == CHOOSE x \in S : TRUE IN <<e>> \o OneOrder(S \ {e})

\* the orders in which findMany may return a set of rows
Orders(S) ==
  {q \in [1..Cardinality(S) -> S] : \A e \in S : \E j \in DOMAIN q : q[j] = e}

InitBootstrap ==
  /\ ownerHasMany = FALSE
  /\ profiles = {}
  /\ records = {}
  /\ req = [r \in Slots |-> Idle]
  /\ helperCall = NoCall
  /\ role \in BOOLEAN
  /\ permissions \in PriorPermissions
  /\ run = [k \in Kinds |-> IdleRun]

\* bootstrap, lines 127-130: the four runs are started one after the other
\* without being awaited; each is left at its first store call
Bootstrap ==
  /\ \A k \in Kinds : run[k].pc \in {"idle", "done"} /\ run[k].n < MaxBoots
  /\ run' = [k \in Kinds |-> [IdleRun EXCEPT !.pc = "role", !.n = run[k].n + 1]]
  /\ UNCHANGED <<ownerHasMany, profiles, records, req, helperCall, role, permissions>>

\* setAuthenticatedPermissions, lines 53-54 and 77: the head of the upsert
\* loop, up to the next store call
UpsertLoop(k, rn) ==
  IF rn.i > Len(ActionsOf(k)) THEN [rn EXCEPT !.pc = "find_many"]
  ELSE [rn EXCEPT !.pc = "upsert_find"]

\* setAuthenticatedPermissions, lines 43-50: the role of type 'authenticated'
RoleFound(k) ==
  /\ run[k].pc = "role"
  /\ run' = [run EXCEPT ![k] =
               IF ~role THEN [@ EXCEPT !.pc = "done"]
               ELSE UpsertLoop(k, [@ EXCEPT !.i = 1])]
  /\ UNCHANGED <<ownerHasMany, profiles, records, req, helperCall, role, permissions>>

\* an upsert that never finds the permission
UpsertFindMissing(k) ==
  /\ run[k].pc = "upsert_find"
  /\ run' = [run EXCEPT ![k] = [@ EXCEPT !.pc = "upsert_create"]]
  /\ UNCHANGED <<ownerHasMany, profiles, records, req, helperCall, role, permissions>>

\* setAuthenticatedPermissions, lines 56-62: look for the permission
UpsertFind(k) ==
  /\ run[k].pc = "upsert_find"
  /\ LET existing == ActionKey(k, ActionsOf(k)[run[k].i]) \in permissions IN
       run' = [run EXCEPT ![k] =
                 IF ~existing THEN [@ EXCEPT !.pc = "upsert_create"]
                 ELSE UpsertLoop(k, [@ EXCEPT !.i = @ + 1])]
  /\ UNCHANGED <<ownerHasMany, profiles, records, req, helperCall, role, permissions>>

\* setAuthenticatedPermissions, lines 63-73: create the missing permission
UpsertCreate(k) ==
  /\ run[k].pc = "upsert_create"
  /\ LET actionKey == ActionKey(k, ActionsOf(k)[run[k].i]) IN
       /\ permissions' = permissions \cup {actionKey}
       /\ run' = [run EXCEPT ![k] =
                    UpsertLoop(k, [@ EXCEPT !.i = @ + 1,
                                            !.calls = Append(@, <<"create", actionKey>>)])]
  /\ UNCHANGED <<ownerHasMany, profiles, records, req, helperCall, role>>

\* setAuthenticatedPermissions, lines 85-89 and 99: the rows of the snapshot
\* that are still to be deleted, or the end of the run
PurgeLoop(rn) ==
  IF rn.pending = <<>> THEN [rn EXCEPT !.pc = "done"]
  ELSE [rn EXCEPT !.pc = "purge"]

\* a purge that does not look at the prefix of the action key
FindManyAnyKind(k) ==
  /\ run[k].pc = "find_many"
  /\ LET unlisted == permissions \ ActionKeys(k) IN
       run' = [run EXCEPT ![k] = PurgeLoop([@ EXCEPT !.pending = OneOrder(unlisted)])]
  /\ UNCHANGED <<ownerHasMany, profiles, records, req, helperCall, role, permissions>>

\* setAuthenticatedPermissions, lines 77-89: read all permissions of the role
\* and keep, in the order the store returned them, those of the uid that are
\* not listed
FindMany(k) ==
  /\ run[k].pc = "find_many"
  /\ LET allPermissions == permissions
         unlisted == {a \in allPermissions :
                        /\ startsWith(a, UidOf(k) \o <<".">>)
                        /\ a \notin ActionKeys(k)}
     IN \E pending \in Orders(unlisted) :
          run' = [run EXCEPT ![k] = PurgeLoop([@ EXCEPT !.pending = pending])]
  /\ UNCHANGED <<ownerHasMany, profiles, records, req, helperCall, role, permissions>>

\* setAuthenticatedPermissions, lines 90-98: delete the next unlisted row
Purge(k) ==
  /\ run[k].pc = "purge"
  /\ permissions' = permissions \ {Head(run[k].pending)}
  /\ run' = [run EXCEPT ![k] =
               PurgeLoop([@ EXCEPT !.pending = Tail(@),
                                   !.calls = Append(@, <<"delete", Head(run[k].pending)>>)])]
  /\ UNCHANGED <<ownerHasMany, profiles, records, req, helperCall, role>>

\* a store call of the run of kind k returns
RunStep(k) ==
  \/ RoleFound(k)
  \/ UpsertFind(k) \/ UpsertCreate(k)
  \/ FindMany(k) \/ Purge(k)

NextBootstrap == Bootstrap \/ \E k \in Kinds : RunStep(k)

SpecBootstrap == InitBootstrap /\ [][NextBootstrap]_vars

\* every store call that was issued returns
SpecBootstrapFair ==
  SpecBootstrap /\ \A k \in Kinds : WF_vars(RunStep(k))

\* ================================================================ claims
\* the principal at the end of a record's owner chain (E.profile.user)
OwnerPrincipal(e) ==
  IF ProfilesById(e.profile) = {} THEN NoId
  ELSE (CHOOSE p \in ProfilesById(e.profile) : TRUE).user

\* the request handled in the sequential specification
R == req[1]
Done == R.pc = "done"
IsDirect(rq) == NoEmail(parseEmailParam(rq.id, UserKey))
\* the record a direct route identifier names, if the store holds it
Named(rq) == RecordsById(DirectIdOf(rq.id))
\* the create and update calls a request has issued on records of the kind
RecordWrites(rq) ==
  SelectSeq(rq.calls, LAMBDA c : c.on = "record" /\ c.c \in {"create", "update"})
UpdatedIds(rq) ==
  {rq.calls[k].id : k \in {j \in 1..Len(rq.calls) :
                             rq.calls[j].on = "record" /\ rq.calls[j].c = "update"}}

\* C1: findOne (of a singleton kind, where it is enabled) on the direct id of a
\* record whose owner chain ends at another principal than the caller ends in
\* Forbidden and returns nothing of it.
C1_ReadIsolation ==
  (Done /\ R.op = "findOne" /\ ~ownerHasMany /\ R.agent \in Users /\ IsDirect(R))
    => \A e \in Named(R) :
         (OwnerPrincipal(e) \in Users /\ OwnerPrincipal(e) # R.agent)
           => (R.status = "Forbidden" /\ R.body = <<>>)

\* C2: update on the direct id of a record whose owner chain ends at another
\* principal than the caller ends in Forbidden and issues no update call.
C2_WriteIsolation ==
  (R.op = "update" /\ R.agent \in Users /\ IsDirect(R))
    => \A e \in Named(R) :
         (OwnerPrincipal(e) \in Users /\ OwnerPrincipal(e) # R.agent)
           => /\ e.id \notin UpdatedIds(R)
              /\ R.pc # "upd_write"
              /\ Done => R.status = "Forbidden"

\* C3: the list a principal gets from find holds no record whose owner chain
\* ends at another principal, whatever query filter the caller supplied.
C3_ListIsolation ==
  (Done /\ R.op = "find" /\ R.agent \in Users)
    => \A k \in 1..Len(R.body) :
         ~ (OwnerPrincipal(R.body[k]) \in Users
              /\ OwnerPrincipal(R.body[k]) # R.agent)

\* C4: in an email-indirected bulk update, an item that carries the id of a
\* record whose owner chain ends at another principal than the resolved owner
\* is refused with Forbidden (unless an earlier item already ended the request)
\* and that record is not updated.
C4_BulkItemIsolation ==
  (R.op = "update" /\ ownerHasMany /\ R.i >= 1)
    => \A k \in 1..Len(R.extractedIds) : \A e \in RecordsById(R.extractedIds[k]) :
         (OwnerPrincipal(e) \in Users /\ OwnerPrincipal(e) # R.ownerUser)
           => /\ e.id \notin UpdatedIds(R)
              /\ Done => R.status \in {"Forbidden", "NotFound"}

\* C5: no step of any request changes the owner-reference of a record that
\* exists before the step, whatever the payload holds for the owner field.
C5_OwnerReferenceKept ==
  [][\A e \in records : \E e2 \in records' : e2.id = e.id /\ e2.profile = e.profile]_vars

\* C5 witness: an update whose payload named another profile in the owner
\* field has been applied to a record.
C5_Witness ==
  /\ Done /\ R.op = "update" /\ R.status = "ok"
  /\ \E k \in 1..Len(R.data.items) :
       /\ "profile" \in DOMAIN R.data.items[k].f
       /\ \E j \in 1..Len(R.body) :
            /\ R.body[j].id \in UpdatedIds(R)
            /\ R.body[j].profile # R.data.items[k].f["profile"]

\* C6: with no principal id in the request state, find, findOne (where it is
\* enabled) and update (with a `data` payload) end Unauthenticated and issue no
\* store call.
C6_FailClosed ==
  (Done /\ R.agent = NoId /\ R.op \in {"find", "findOne", "update"}
     /\ ~(R.op = "findOne" /\ ownerHasMany)
     /\ ~(R.op = "update" /\ R.data.shape = "absent"))
    => (R.status = "Unauthenticated" /\ R.calls = <<>>)

\* the ids a bulk delete targets
DeleteIds(rq) == {rq.data.items[k].id : k \in 1..Len(rq.data.items)}
\* the id exists and its record is owned by the caller
Deletable(rq, id) ==
  \E e \in RecordsById(id) : OwnerPrincipal(e) = rq.agent

\* C7: an email-indirected bulk delete by the owner of the email ends in
\* NotFound or Forbidden when one of its ids is missing or not the caller's,
\* and otherwise succeeds and leaves none of the targeted records in the store.
C7_BulkDeleteAtomic ==
  (Done /\ R.op = "delete" /\ ~IsDirect(R) /\ DeleteIds(R) # {}
     /\ toLowerCase(parseEmailParam(R.id, UserKey).s) = EmailOf(R.agent))
    => IF \A id \in DeleteIds(R) : Deletable(R, id)
       THEN R.status = "ok" /\ \A id \in DeleteIds(R) : RecordsById(id) = {}
       ELSE R.status \in {"NotFound", "Forbidden"}

\* the requests that ran the item loop of an email-indirected bulk update
InBulk(rq) == rq.op = "update" /\ ownerHasMany /\ rq.i >= 1
\* the request was ended by the item at position rq.i
ItemFailed(rq) ==
  InBulk(rq) /\ rq.pc = "done" /\ rq.status \in {"NotFound", "Forbidden"}

\* C8: a bulk update that ends in NotFound or Forbidden because of one of its
\* items has created and updated no record.
C8_VerifyAllBeforeMutate ==
  ItemFailed(R) => RecordWrites(R) = <<>>

\* the write the loop issues for item k: an update of the item's id, or a create
WriteOfItem(rq, k, c) ==
  IF rq.extractedIds[k] # 0
  THEN c.c = "update" /\ c.id = rq.extractedIds[k]
  ELSE c.c = "create"
\* items whose write has been issued: those before rq.i
ItemsWritten(rq) == rq.i - 1

\* C8 (amended): the bulk update handles its items one by one in array order:
\* the writes issued so far are exactly those of the items before the current
\* one, every update is issued right after the fetch of the same record that
\* checked its owner, and a request ended by item k has written the items
\* before k and neither item k nor a later one.
C8_VerifyEachBeforeItsWrite ==
  InBulk(R) =>
    /\ Len(RecordWrites(R)) = ItemsWritten(R)
    /\ \A k \in 1..ItemsWritten(R) : WriteOfItem(R, k, RecordWrites(R)[k])
    /\ \A j \in 1..Len(R.calls) :
         (R.calls[j].on = "record" /\ R.calls[j].c = "update")
           => /\ j > 1
              /\ R.calls[j - 1] = [c |-> "findOne", on |-> "record", id |-> R.calls[j].id]
    /\ ItemFailed(R) =>
         R.calls[Len(R.calls)] =
           [c |-> "findOne", on |-> "record", id |-> R.extractedIds[R.i]]

\* C8 witness: the second item ended the request after the first was written.
C8_Witness == ItemFailed(R) /\ R.i = 2 /\ Len(RecordWrites(R)) = 1

\* C9: for a singleton record of principal P, findOne by P returns that record
\* both through its direct id and through `user=<P's email>`.
C9_IndirectionEquivalence ==
  (Done /\ R.op = "findOne" /\ ~ownerHasMany /\ R.agent \in Users)
    => \A e \in records :
         (OwnerPrincipal(e) = R.agent
            /\ \/ R.id = DirectRoute(e.id)
               \/ /\ R.id = EmailRoute(EmailOf(R.agent))
                  /\ \A o \in records : o.profile = e.profile => o = e)
           => (R.status = "ok" /\ R.body = <<e>>)

\* C10: find without extra filters returns every record whose owner-reference
\* is the caller's Profile.
C10_ListComplete ==
  (Done /\ R.op = "find" /\ R.agent \in Users /\ R.filters = {})
    => \A e \in records :
         (\E p \in ProfilesOfUser(R.agent) : e.profile = p.id)
           => (R.status = "ok" /\ \E k \in 1..Len(R.body) : R.body[k] = e)

\* the ids of the records a request has created
CreatedIds(rq) ==
  {rq.calls[k].id : k \in {j \in 1..Len(rq.calls) :
                             rq.calls[j].on = "record" /\ rq.calls[j].c = "create"}}
\* the ids of the Profiles of a principal
ProfileIdsOf(u) == {p.id : p \in ProfilesOfUser(u)}

\* C11: every record created by an id-less item of an email-indirected bulk
\* update is in the store with the Profile of the authenticated caller as its
\* owner-reference, whatever the item's payload holds for the owner field.
C11_CreatedOwnedByCaller ==
  InBulk(R) =>
    \A id \in CreatedIds(R) :
      /\ RecordsById(id) # {}
      /\ \A e \in RecordsById(id) : e.profile \in ProfileIdsOf(R.agent)

\* C11 witness: a bulk update has created a record from an id-less item whose
\* payload named another Profile than the caller's.
C11_Witness ==
  /\ Done /\ InBulk(R) /\ R.status = "ok"
  /\ \E k \in 1..Len(R.data.items) :
       /\ R.extractedIds[k] = 0
       /\ "profile" \in DOMAIN R.data.items[k].f
       /\ R.data.items[k].f["profile"] # R.profileId
       /\ R.out[k].id \in CreatedIds(R)

\* the record holds the payload's value in every field the payload names
HoldsPayload(e, f) == \A k \in DOMAIN f : e[k] = f[k]
\* the positions of the id-less items of a bulk update
IdLess(rq) == {k \in 1..Len(rq.extractedIds) : rq.extractedIds[k] = 0}

\* the response of a successful bulk update: one record for each item, in the
\* order of the items
BulkResult(rq) ==
  (InBulk(rq) /\ rq.pc = "done" /\ rq.status = "ok") =>
    /\ Len(rq.body) = Len(rq.data.items)
    /\ Len(RecordWrites(rq)) = Len(rq.data.items)
    /\ Cardinality(CreatedIds(rq)) = Cardinality(IdLess(rq))
    /\ \A k \in 1..Len(rq.body) :
         /\ WriteOfItem(rq, k, RecordWrites(rq)[k])
         /\ rq.body[k].id = RecordWrites(rq)[k].id
         /\ HoldsPayload(rq.body[k], rq.sanitized[k])
         /\ IF k \in IdLess(rq) THEN rq.body[k].id \in CreatedIds(rq)
            ELSE rq.body[k].id = rq.extractedIds[k]
\* a step of the item loop changes the store by the current item only: the
\* record the item names, or one new record
BulkStepFrame(rq) ==
  (InBulk(rq) /\ records' # records) =>
    IF rq.i \in IdLess(rq)
    THEN records \subseteq records' /\ Cardinality(records' \ records) = 1
    ELSE /\ {e.id : e \in records'} = {e.id : e \in records}
         /\ \A e \in records : e.id # rq.extractedIds[rq.i] => e \in records'

CreatedProfile(rq) ==
  \E k \in 1..Len(rq.calls) : rq.calls[k].on = "profile" /\ rq.calls[k].c = "create"
\* what ensureProfileId has returned to the request is the one Profile of the
\* principal it was called for
ReturnsTheProfile(rq) ==
  rq.profileId # NoId =>
    ProfilesOfUser(rq.ownerUser) = {[id |-> rq.profileId, user |-> rq.ownerUser]}

\* C13: with requests handled one after the other, every call of ensureProfile
\* for a principal returns the id of that principal's one Profile; a Profile is
\* created only for a principal that has none and no Profile is removed or
\* changed, so a second call returns the id of the first and creates nothing.
C13_IdempotentProvisioning ==
  [][/\ ReturnsTheProfile(R)'
     /\ profiles \subseteq profiles'
     /\ profiles' # profiles =>
          /\ ProfilesOfUser(R.ownerUser) = {}
          /\ \E p \in profiles' : profiles' = profiles \cup {p} /\ p.user = R.ownerUser
    ]_vars

\* C13 witness: a later call for a principal who has a Profile returned its id
\* without creating one.
C13_Witness ==
  /\ Done /\ R.profileId # NoId /\ ~CreatedProfile(R)
  /\ ProfilesOfUser(R.ownerUser) # {}

\* C14: under any interleaving of email-indirected requests no principal has
\* more than one Profile record.
C14_OneProfilePerPrincipal ==
  \A u \in Users : Cardinality(ProfilesOfUser(u)) <= 1

\* the records whose owner-reference is Profile pid
RecordsOfProfile(pid) == {e \in records : e.profile = pid}
\* an email-indirected update of the singleton kind that reached the store
SingletonByEmail(rq) ==
  rq.op = "update" /\ ~ownerHasMany /\ ~IsDirect(rq) /\ rq.profileId # NoId

\* C15: with email-indirected updates of a singleton kind handled one after the
\* other, no Profile is referenced by two records; a record is created only for
\* a Profile that no record references, every update is applied to the one
\* record of the caller's Profile, and after a successful update exactly one
\* record references the caller's Profile and it is the one returned.
C15_SingletonCreateIfMissing ==
  [][~ownerHasMany =>
       /\ \A p \in profiles' : Cardinality(RecordsOfProfile(p.id)') <= 1
       /\ (SingletonByEmail(R) /\ records' # records) =>
            /\ R.profileId \in ProfileIdsOf(R.agent)
            /\ IF R.pc = "single_create"
               THEN /\ RecordsOfProfile(R.profileId) = {}
                    /\ \E e \in RecordsOfProfile(R.profileId)' : records' = records \cup {e}
               ELSE \E e \in RecordsOfProfile(R.profileId) :
                      /\ RecordsOfProfile(R.profileId)' = {Merge(e, SingleData(R))}
                      /\ records' \ RecordsOfProfile(R.profileId)'
                           = records \ {e}
       /\ (SingletonByEmail(R) /\ R'.pc = "done" /\ R'.status = "ok") =>
            /\ Cardinality(RecordsOfProfile(R.profileId)') = 1
            /\ \A e \in RecordsOfProfile(R.profileId)' : R'.body = <<e>>
    ]_vars

\* C15 witness: a later update of the singleton found the record the first
\* update had created and modified it.
C15_Witness ==
  /\ Done /\ SingletonByEmail(R) /\ R.status = "ok" /\ CreatedIds(R) = {}
  /\ \E e \in RecordsOfProfile(R.profileId) : e.firstName = 2

\* the request is about to issue the update of record rq.target
AtUpdate(rq) == rq.pc \in {"upd_write", "single_write", "bulk_write"}
\* the sanitized payload of that update
UpdatePayload(rq) ==
  IF rq.pc = "bulk_write" THEN rq.sanitized[rq.i] ELSE SingleData(rq)
\* record e2 is record e with the payload's value in every field the payload
\* names and e's value in every other field
UpdatedFrom(e2, e, f) ==
  /\ e2.id = e.id
  /\ \A k \in {"profile", "firstName", "phone"} :
       e2[k] = IF k \in DOMAIN f THEN f[k] ELSE e[k]

\* C16: the update of an existing record (direct id, email singleton, bulk
\* item) leaves every field the sanitized payload does not name as it was,
\* gives every named field the payload's value, changes no other record and
\* answers with the updated record.
C16_PartialUpdate ==
  [][(AtUpdate(R) /\ R'.pc # R.pc) =>
       \A e \in RecordsById(R.target) :
         \E e2 \in records' :
           /\ UpdatedFrom(e2, e, UpdatePayload(R))
           /\ records' = (records \ {e}) \cup {e2}
           /\ IF R.pc = "bulk_write" THEN R'.out = Append(R.out, e2)
              ELSE R'.body = <<e2>>
    ]_vars

\* C16 witness: a successful update that named only the phone was applied to
\* a record whose firstName had been set before.
C16_Witness ==
  /\ Done /\ R.op = "update" /\ R.status = "ok" /\ UpdatedIds(R) # {}
  /\ \E k \in 1..Len(R.body) :
       /\ R.body[k].id \in UpdatedIds(R)
       /\ R.body[k].firstName # 0 /\ R.body[k].phone = 1
       /\ \A j \in 1..Len(R.sanitized) : DOMAIN R.sanitized[j] = {"phone"}

\* the principals the email of an email-indirected request resolves to
EmailTargets(rq) ==
  IF IsDirect(rq) THEN {}
  ELSE {u \in Users : EmailOf(u) = toLowerCase(parseEmailParam(rq.id, UserKey).s)}
\* an email-indirected findOne (of a singleton kind) or update (with a `data`
\* payload) by an authenticated caller whose email names another principal
ForAnother(rq) ==
  /\ \/ rq.op = "findOne" /\ ~ownerHasMany
     \/ rq.op = "update" /\ rq.data.shape # "absent"
  /\ rq.agent \in Users
  /\ EmailTargets(rq) # {} /\ rq.agent \notin EmailTargets(rq)

\* C17: an email-indirected findOne or update whose email resolves to another
\* principal than the caller ends in Forbidden; no step of it changes a Profile
\* or a record, and it issues no create or update call.
C17_CallerIsTarget ==
  [][ForAnother(R') =>
       /\ profiles' = profiles /\ records' = records
       /\ ~CreatedProfile(R') /\ RecordWrites(R') = <<>>
       /\ R'.pc = "done" => (R'.status = "Forbidden" /\ R'.body = <<>>)
    ]_vars

\* C17 witness: an update through the email of a principal who has no Profile
\* yet, sent by another principal, has been refused.
C17_Witness ==
  /\ Done /\ ForAnother(R) /\ R.op = "update" /\ R.status = "Forbidden"
  /\ \A u \in EmailTargets(R) : ProfilesOfUser(u) = {}

\* C18: a collection item that a principal created through an id-less entry
\* of a bulk update (every record of the collection kind is created so) is
\* returned, as stored, by that principal's find with a filter on its id.
C18_CreatedItemRoundTrip ==
  (Done /\ R.op = "find" /\ ownerHasMany /\ R.agent \in Users)
    => \A e \in records :
         (R.filters = {<< <<"id">>, e.id >>} /\ e.profile \in ProfileIdsOf(R.agent))
           => (R.status = "ok" /\ R.body = <<e>>)

\* a finished findOne (of a singleton kind) or update on a direct id
DirectDone(rq) ==
  /\ rq.pc = "done" /\ rq.agent \in Users /\ IsDirect(rq)
  /\ \/ rq.op = "findOne" /\ ~ownerHasMany
     \/ rq.op = "update"
\* what the caller sees of a finished request
Outcome(rq) == [status |-> rq.status, body |-> rq.body]

\* C19: of two finished direct-id requests of the same operation by the same
\* caller, one naming no record and one naming a record whose owner chain ends
\* at another principal, the caller sees the same outcome.
C19_NoExistenceLeak ==
  (/\ DirectDone(req[1]) /\ DirectDone(req[2])
   /\ req[1].op = req[2].op /\ req[1].agent = req[2].agent
   /\ Named(req[1]) = {}
   /\ \E e \in Named(req[2]) :
        OwnerPrincipal(e) \in Users /\ OwnerPrincipal(e) # req[2].agent)
    => Outcome(req[1]) = Outcome(req[2])

\* the `data` of an update does not have the shape its kind and route ask for
WrongShape(rq) ==
  \/ rq.data.shape = "absent"
  \/ ~ownerHasMany /\ rq.data.shape = "array"
  \/ ownerHasMany /\ ~IsDirect(rq) /\ rq.data.shape # "array"

\* C20: an update by an authenticated caller (through a direct id or the
\* caller's own email) whose `data` is absent, is an array for a singleton
\* kind, or is not an array for a collection kind addressed by email ends in
\* BadRequest and has issued no store call.
C20_PayloadShape ==
  (/\ Done /\ R.op = "update" /\ WrongShape(R)
   /\ R.agent \in Users /\ (IsDirect(R) \/ R.agent \in EmailTargets(R)))
    => (R.status = "BadRequest" /\ R.calls = <<>>)

\* C21: for a collection kind every findOne request, through a direct id or an
\* email and by any caller, ends at once in BadRequest, with no store call and
\* no change of a Profile or a record; and findOne is not among the actions
\* bootstrap grants the authenticated role on the collection kind.
C21_FindOneDisabled ==
  [][ownerHasMany =>
       /\ "findOne" \notin GrantedActions
       /\ R'.op = "findOne" =>
            /\ R'.pc = "done" /\ R'.status = "BadRequest" /\ R'.body = <<>>
            /\ R'.calls = <<>>
            /\ profiles' = profiles /\ records' = records
    ]_vars

\* C21 witness: the owner's findOne through the own email on a collection kind
\* that holds a record of the owner has ended in BadRequest.
C21_Witness ==
  /\ Done /\ R.op = "findOne" /\ ownerHasMany /\ R.status = "BadRequest"
  /\ R.agent \in EmailTargets(R)
  /\ \E e \in records : OwnerPrincipal(e) = R.agent

\* the Profile a direct route identifier names, if the store holds it
NamedProfile(rq) == ProfilesById(DirectIdOf(rq.id))

\* C22: a profile findOne by an authenticated principal ends in Forbidden and
\* returns nothing when its direct id names the Profile of another principal
\* and when its email resolves to another principal; no answer holds the
\* Profile of another principal.
C22_ProfileIsolation ==
  (Done /\ R.op = "profileFindOne" /\ R.agent \in Users) =>
    /\ (\E p \in NamedProfile(R) : IsDirect(R) /\ p.user \in Users /\ p.user # R.agent)
         => (R.status = "Forbidden" /\ R.body = <<>>)
    /\ (EmailTargets(R) # {} /\ R.agent \notin EmailTargets(R))
         => (R.status = "Forbidden" /\ R.body = <<>>)
    /\ \A k \in 1..Len(R.body) : \A u \in Users \ {R.agent} :
         R.body[k].id \notin ProfileIdsOf(u)

\* C22 witness: a principal's findOne on the direct id of another principal's
\* Profile has been refused.
C22_Witness ==
  /\ Done /\ R.op = "profileFindOne" /\ R.agent \in Users /\ IsDirect(R)
  /\ R.status = "Forbidden"
  /\ \E p \in NamedProfile(R) : p.user \in Users /\ p.user # R.agent

\* C23: the authenticated role is granted delete on the collection kind, and
\* on no singleton kind and not on profile.
C23_DeleteOnCollectionOnly ==
  /\ ownerHasMany => "delete" \in GrantedActions
  /\ ~ownerHasMany => "delete" \notin GrantedActions
  /\ "delete" \notin GrantedOnProfile

\* the owner relation of the entity extractOwnerId was applied to
RelOf(call) == Prop(call.arg, "profile")
\* extractOwnerId(entity, 'profile') has returned
ReturnedForProfile(call) == call.pc = "returned" /\ call.field = <<"profile">>

\* C24: for an entity whose `profile` is a populated object with a reference
\* to its user (nested object or bare id), extractOwnerId(entity, 'profile')
\* returns the id of that user.
C24_OwnerThroughProfile ==
  (/\ ReturnedForProfile(helperCall)
   /\ RelOf(helperCall).t = "object"
   /\ Prop(RelOf(helperCall), "user") \notin {Undef, Null})
    => helperCall.result = IdOrSelf(Prop(RelOf(helperCall), "user"))

\* C25: for an entity whose `profile` holds only an identifier, or a profile
\* object without a `user` reference, extractOwnerId(entity, 'profile') returns
\* undefined.
C25_OwnerUnpopulated ==
  (/\ ReturnedForProfile(helperCall)
   /\ \/ RelOf(helperCall).t = "number"
      \/ /\ RelOf(helperCall).t = "object"
         /\ Prop(RelOf(helperCall), "user") = Undef)
    => helperCall.result = Undef

\* the last store call of the request was the fetch of record id
JustFetched(rq, id) ==
  /\ rq.calls # <<>>
  /\ rq.calls[Len(rq.calls)] = [c |-> "findOne", on |-> "record", id |-> id]
\* the request has looked up the user of the email and found the caller
CallerIsEmailOwner(rq) ==
  /\ rq.ownerUser \in Users /\ rq.ownerUser = rq.agentId
  /\ rq.ownerUser \in EmailTargets(rq)
  /\ rq.calls # <<>> /\ rq.calls[1] = [c |-> "findMany", on |-> "user", id |-> NoId]
\* the step issues a create or an update call on a record
WritesRecord(rq, rq2) == Len(RecordWrites(rq2)) > Len(RecordWrites(rq))
\* the call the step issues
IssuedCall(rq2) == rq2.calls[Len(rq2.calls)]

\* C26: in every update request a create or update call on a record comes
\* after the owner comparison it depends on: in the direct-id branch and for
\* an id-bearing bulk item the record was fetched in the preceding call and its
\* extracted owner equals the caller (the resolved owner); in the email branch
\* the user of the email was looked up first and is the caller.
C26_ReadsBeforeWrites ==
  [][(R.op = "update" /\ WritesRecord(R, R')) =>
       /\ IsDirect(R) =>
            /\ IssuedCall(R').c = "update" /\ JustFetched(R, IssuedCall(R').id)
            /\ \A e \in RecordsById(IssuedCall(R').id) :
                 SameId(R.agentId, extractOwnerId(Populated(e), ownerField))
       /\ ~IsDirect(R) =>
            /\ CallerIsEmailOwner(R)
            /\ (ownerHasMany /\ IssuedCall(R').c = "update") =>
                 /\ JustFetched(R, IssuedCall(R').id)
                 /\ \A e \in RecordsById(IssuedCall(R').id) :
                      extractOwnerId(Populated(e), ownerField) = JsId(R.ownerUser)
    ]_vars

\* C26 witness: updates were issued through a direct id and for a bulk item.
C26_Witness ==
  /\ Done /\ R.op = "update" /\ R.status = "ok" /\ UpdatedIds(R) # {}
  /\ IsDirect(R) \/ (ownerHasMany /\ Len(R.body) = 2)

\* C27: uniqueness of the singleton is enforced by the create-if-missing logic
\* only: a request whose find returned nothing creates a record for its
\* Profile whatever records reference that Profile by then, so two updates by
\* the same principal that both looked before either created leave two records
\* of the kind with the same Profile.
C27_SingletonRace ==
  [][\A r \in Slots :
       (req[r].pc = "single_create" /\ req'[r].pc # "single_create") =>
         \E e \in records' \ records :
           /\ e.profile = req[r].profileId
           /\ records' = records \cup {e}
           /\ req'[r].target = e.id
    ]_vars

\* C27 witness: two records of a singleton kind reference the same Profile.
C27_Witness ==
  /\ ~ownerHasMany
  /\ \E e1, e2 \in records : e1.id # e2.id /\ e1.profile = e2.profile
  /\ req[1].op = "update" /\ req[2].op = "update" /\ req[1].agent = req[2].agent

\* C28: the owner-reference of every record resolves to exactly one Profile
\* of the store, and that Profile to a principal.
C28_OwnershipChain ==
  \A e \in records :
    /\ Cardinality(ProfilesById(e.profile)) = 1
    /\ \A p \in ProfilesById(e.profile) : p.user \in Users

\* the request is about to fetch, by its direct id, an entity for which
\* extractOwnerId returns undefined
FetchesUnowned(rq) ==
  \/ /\ rq.pc = "pf_fetch"
     /\ \E p \in NamedProfile(rq) :
          extractOwnerId(PopulatedProfile(p), <<"user">>) = Undef
  \/ /\ rq.pc \in {"fo_fetch", "upd_fetch"}
     /\ \E e \in Named(rq) : extractOwnerId(Populated(e), ownerField) = Undef

\* C29: a findOne or update that fetches, by its direct id, an entity whose
\* owner extractOwnerId cannot determine ends in Forbidden, also when the
\* request carries no principal id.
C29_UnownedInaccessible ==
  [][\A r \in Slots :
       (FetchesUnowned(req[r]) /\ req'[r].pc # req[r].pc)
         => (req'[r].pc = "done" /\ req'[r].status = "Forbidden")
    ]_vars

\* the request has ended in BadRequest, Forbidden or NotFound
Rejected(rq) ==
  rq.pc = "done" /\ rq.status \in {"BadRequest", "Forbidden", "NotFound"}

IsRead(rq) == rq.op \in {"find", "findOne"}

\* C31: no step of a find or a findOne changes the records of the kind; the
\* only Profile such a step creates is the caller's own, in a findOne through
\* the caller's email, and no Profile is changed or removed; a findOne through
\* the email answers null when no record references the caller's Profile.
C31_ReadsDoNotWrite ==
  [][(IsRead(R) \/ IsRead(R')) =>
       /\ records' = records
       /\ WritesRecord(R, R') = FALSE
       /\ profiles' # profiles =>
            /\ R.op = "findOne" /\ CallerIsEmailOwner(R)
            /\ profiles' = profiles \cup {[id |-> R'.profileId, user |-> R.agent]}
       /\ (R.pc = "fo_find" /\ RecordsOfProfile(R.profileId) = {}) =>
            (R'.pc = "done" /\ R'.status = "ok" /\ R'.body = <<>>)
    ]_vars

\* C31 witness: a findOne through the own email has created the caller's
\* Profile and answered null.
C31_Witness ==
  /\ Done /\ R.op = "findOne" /\ R.status = "ok" /\ R.body = <<>>
  /\ CreatedProfile(R) /\ records = {}

\* the identifier has the form `user=<value>` with a value of at least one
\* character, the key in any letter case
HasEmailForm(id) ==
  /\ Len(id) > Len(UserKey) + 1
  /\ toLowerCase(SubSeq(id, 1, Len(UserKey))) = UserKey
  /\ id[Len(UserKey) + 1] = "="
\* the first store call of a findOne or update shows the branch it took
TookEmailBranch(rq) == rq.calls[1] = [c |-> "findMany", on |-> "user", id |-> NoId]
TookDirectBranch(rq) == rq.calls[1].c = "findOne" /\ rq.calls[1].on = "record"

\* C32: a findOne or update takes the email branch exactly when its route
\* identifier has the form `user=<value>`; an identifier of that form, also one
\* whose value decodes and trims to the empty string, is never looked up as a
\* direct record id, and every other identifier is.
C32_IdentifierRouting ==
  (R.op \in {"findOne", "update"} /\ R.calls # <<>>) =>
    /\ HasEmailForm(R.id) => TookEmailBranch(R)
    /\ ~HasEmailForm(R.id) => TookDirectBranch(R)

\* C33: in an email-indirected bulk update, an array item that contains an
\* `id` field, whatever its value (0, null and the empty string included), is
\* never written by a create: its write, when one is issued, is an update.
C33_ItemWithIdNeverCreates ==
  InBulk(R) =>
    \A k \in 1..ItemsWritten(R) :
      R.data.items[k].hasId => RecordWrites(R)[k].c # "create"


\* C34: every step of an email-indirected update of a singleton kind changes
\* or creates only a record that references the Profile resolved for the
\* caller, and leaves every record of another Profile as it was; when the
\* update has succeeded it has issued exactly one update call, on a record
\* whose owner-reference is a Profile of the authenticated caller.
C34_SingletonTouchesOwnRecord ==
  [][SingletonByEmail(R') =>
       /\ \A e \in (records' \ records) \cup (records \ records') :
            e.profile = R'.profileId
       /\ \A e \in records : e.profile # R'.profileId => e \in records'
       /\ (R'.pc = "done" /\ R'.status = "ok") =>
            /\ R'.agent \in Users
            /\ \E p \in profiles' : p.id = R'.profileId /\ p.user = R'.agent
            /\ Cardinality(UpdatedIds(R')) = 1
            /\ Len(SelectSeq(R'.calls, LAMBDA c : c.on = "record" /\ c.c = "update")) = 1
            /\ \A id \in UpdatedIds(R') :
                 \E e \in records' : e.id = id /\ e.profile = R'.profileId]_vars

\* C34 witness: the caller's record was updated with a new first name while
\* the store holds a record of another Profile.
C34_Witness ==
  /\ Done /\ SingletonByEmail(R) /\ R.status = "ok"
  /\ "firstName" \in DOMAIN SingleData(R)
  /\ \E e \in records : e.id \in UpdatedIds(R) /\ e.firstName = SingleData(R)["firstName"]
                         /\ e.firstName # 0
  /\ \E e \in records : e.profile # R.profileId /\ e.profile # NoId


\* a profile findOne through the email of the authenticated caller
OwnProfileByEmail(rq) ==
  rq.op = "profileFindOne" /\ rq.agent \in Users /\ rq.agent \in EmailTargets(rq)

\* C35: a profile findOne with `user=<own email>` by an authenticated principal
\* answers 200 with a Profile (never null) that the store holds with the
\* caller as its principal back-reference; the request creates that Profile
\* when the caller had none, and creates nothing when the caller had one.
C35_ProfileAutoCreationOnRead ==
  [][(OwnProfileByEmail(R') /\ R'.pc = "done" /\ R.pc # "done") =>
       /\ R'.status = "ok" /\ Len(R'.body) = 1
       /\ \E p \in profiles' : p.id = R'.body[1].id /\ p.user = R'.agent
       /\ IF ProfilesOfUser(R'.agent) = {}
          THEN /\ CreatedProfile(R')
               /\ profiles' = profiles \cup {[id |-> R'.body[1].id, user |-> R'.agent]}
          ELSE ~CreatedProfile(R') /\ profiles' = profiles]_vars

\* C35 witness: the caller had no Profile and the answer is the created one.
C35_Witness ==
  /\ Done /\ OwnProfileByEmail(R) /\ R.status = "ok" /\ CreatedProfile(R)
  /\ ProfilesOfUser(R.agent) = {[id |-> R.body[1].id, user |-> R.agent]}


\* the permissions of the role whose action key has the prefix `uid.`
OfKind(k) == {a \in permissions : startsWith(a, UidOf(k) \o <<".">>)}
\* the run of kind k has returned
Completed(k) == run[k].pc = "done"
\* the run of kind k has been started and has not returned
Running(k) == run[k].pc \notin {"idle", "done"}
\* the run of kind k follows a completed run with the same arguments
SecondRun(k) == run[k].n >= 2

\* C36: once setAuthenticatedPermissions(uid, actions) has completed and the
\* authenticated role exists, the role's permissions with prefix `uid.` are
\* exactly the listed actions, and they stay so; a second run with the same
\* arguments issues no create and no delete.
C36_ReconciliationIdempotent ==
  \A k \in Kinds :
    /\ (role /\ (Completed(k) \/ SecondRun(k))) => OfKind(k) = ActionKeys(k)
    /\ SecondRun(k) => run[k].calls = <<>>

\* C36 witness: the second run for the emergency-contact kind has completed
\* after looking for each listed action, with the listed permissions in place.
C36_Witness ==
  /\ role /\ SecondRun("emergency-contact") /\ Completed("emergency-contact")
  /\ run["emergency-contact"].i = Len(ActionsOf("emergency-contact")) + 1
  /\ OfKind("emergency-contact") =
       {ActionKey("emergency-contact", "find"), ActionKey("emergency-contact", "update")}

\* the permissions a step creates or deletes
Touched == (permissions' \ permissions) \cup (permissions \ permissions')

\* C37: of the four runs bootstrap starts without awaiting them, under every
\* interleaving of their store calls, no run creates or deletes a permission
\* whose action key lacks the prefix of its own uid, the permissions of a kind
\* whose run has completed are exactly the actions listed for it (when the
\* authenticated role exists), and every run that was started completes.
C37_RunsDoNotInterfere ==
  /\ [][\A k \in Kinds :
          run'[k] # run[k] => \A a \in Touched : startsWith(a, UidOf(k) \o <<".">>)]_vars
  /\ [](\A k \in Kinds : (role /\ Completed(k)) => OfKind(k) = ActionKeys(k))
  /\ \A k \in Kinds : Running(k) ~> Completed(k)

\* C37 witness: the four runs of the first start have completed; the profile
\* run created two permissions and deleted two, the person run created two,
\* the emergency-contact run deleted one, and the permission that belongs to
\* none of the kinds is still there.
C37_Witness ==
  /\ role /\ \A k \in Kinds : Completed(k) /\ run[k].n = 1
  /\ Len(run["profile"].calls) = 4 /\ Len(run["person"].calls) = 2
  /\ \E j \in DOMAIN run["emergency-contact"].calls :
       run["emergency-contact"].calls[j][1] = "delete"
  /\ ForeignKey \in permissions
  /\ \A k \in Kinds : OfKind(k) = ActionKeys(k)


====
